---- MODULE Spec2Model ----
(***************************************************************************)
(* deep_research.py: submit a background research task to the remote       *)
(* Interactions API, poll it until it is COMPLETED or FAILED, print the    *)
(* result and exit.                                                        *)
(*                                                                         *)
(* Python values are tagged records so that None, a missing dict key, a    *)
(* string and a list can be told apart.  Strings are sequences of          *)
(* one-character strings, so str.split is computed, not assumed.           *)
(***************************************************************************)
EXTENDS Integers, Sequences, FiniteSets, TLC

VARIABLES
    env_key,         \* os.getenv("GEMINI_API_KEY") as the process sees it
    pc,              \* position of the process: main, create, poll, sleep, returned, exit
    interaction_id,  \* run_research's local interaction_id
    interaction,     \* run_research's local interaction (last parsed response)
    result,          \* value returned by run_research to main
    exitCode,        \* <<>> while running, <<c>> once the process has exited with c
    raised,          \* exception raised by the last requests call, or "none"
    uncaught,        \* name of the exception that left run_research, or "none"
    stdout,          \* lines printed so far
    calls,           \* requests.post / requests.get / time.sleep calls made so far
    statuses,        \* status read from every successful fetch response, in order
    now,             \* time.time()
    start_time,      \* run_research's local start_time
    submit_response, \* what create_interaction returned, kept after `interaction` is reassigned
    threads,         \* concurrent calls of run_research: position, feed and counters of each
    frames           \* concurrent calls of run_research: the local variables of each call

\* state of the process running main
svars == <<env_key, pc, interaction_id, interaction, result, exitCode, raised, uncaught,
           stdout, calls, statuses, now, start_time, submit_response>>

\* state of run_research called from several threads at once
nvars == <<threads, frames>>

vars == <<svars, nvars>>

----------------------------------------------------------------------------
(* Bounds of the model *)

\* greatest number of get_interaction calls explored in one run
MaxPolls == 3

----------------------------------------------------------------------------
(* Python values *)

None == [tag |-> "None"]
\* a key that is missing from a dict
Absent == [tag |-> "absent"]
Str(chars) == [tag |-> "str", s |-> chars]
List(items) == [tag |-> "list", items |-> items]
\* str(x) of a dict: some text, never empty
Repr(kind) == [tag |-> "str", s |-> <<"{", kind, "}">>]

\* truth value of a Python object, as `if x:` / `not x` / `x or y` use it
Truthy(v) ==
    CASE v.tag = "None" -> FALSE
      [] v.tag = "str"  -> v.s # <<>>
      [] v.tag = "list" -> v.items # <<>>
      [] OTHER          -> TRUE

\* d.get(key, default)
Get(d, key, default) == IF d[key] = Absent THEN default ELSE d[key]

\* a or b
Or(a, b) == IF Truthy(a) THEN a ELSE b

\* chars.split(sep): the segments between the separators, in order
RECURSIVE SplitAcc(_, _, _, _)
SplitAcc(chars, sep, done, cur) ==
    IF chars = <<>> THEN Append(done, cur)
    ELSE IF Head(chars) = sep
         THEN SplitAcc(Tail(chars), sep, Append(done, cur), <<>>)
         ELSE SplitAcc(Tail(chars), sep, done, Append(cur, Head(chars)))

Split(chars, sep) == SplitAcc(chars, sep, <<>>, <<>>)

\* xs[-1]
Last(xs) == xs[Len(xs)]

----------------------------------------------------------------------------
(* Constants of the program *)

POLL_INTERVAL == 10

S_COMPLETED == Str(<<"C","O","M","P","L","E","T","E","D">>)
S_completed == Str(<<"c","o","m","p","l","e","t","e","d">>)
S_FAILED == Str(<<"F","A","I","L","E","D">>)
S_failed == Str(<<"f","a","i","l","e","d">>)
S_unknown == Str(<<"u","n","k","n","o","w","n">>)
S_UnknownError == Str(<<"U","n","k","n","o","w","n"," ","e","r","r","o","r">>)

----------------------------------------------------------------------------
(* What the environment and the remote side can supply *)

\* GEMINI_API_KEY: unset, set to the empty string, set
EnvKeys == {None, Str(<<>>), Str(<<"k">>)}

\* "name" of a create response: missing, hierarchical, ending in "/", flat
Names == {Absent, Str(<<"i","/","a">>), Str(<<"i","/">>), Str(<<"b">>)}
\* "id" of a create response
Ids == {Absent, Str(<<"c">>)}
\* "status" of a create response
CreateStatuses == {Absent, S_COMPLETED, S_FAILED}

CreateResponses == [name : Names, id : Ids, status : CreateStatuses]

\* "status" of a get response: the four terminal spellings, two labels the
\* program has no branch for, and no status at all
S_in_progress == Str(<<"i","n","_","p","r","o","g","r","e","s","s">>)
S_Completed == Str(<<"C","o","m","p","l","e","t","e","d">>)
StatusLabels == {S_COMPLETED, S_completed, S_FAILED, S_failed,
                 S_in_progress, S_Completed, Absent}

\* "outputs": missing, empty, or dicts with or without a "text" key
OutputLists == {List(<<>>),
                List(<<[text |-> Str(<<"X">>)]>>),
                List(<<[text |-> Str(<<>>)]>>),
                List(<<[text |-> Absent]>>),
                List(<<[text |-> Str(<<"X">>)], [text |-> Str(<<"Y">>)]>>)}
Outputs == OutputLists \cup {Absent}

Errors == {Absent, Str(<<"e">>)}

\* "id" of a get response: missing, or whatever the remote side reports
FetchedIds == {Absent, Str(<<"z">>)}

GetResponses == [id : FetchedIds, status : StatusLabels, outputs : Outputs, error : Errors]

\* How one HTTP exchange can end: a parsed 2xx body, raise_for_status raising
\* HTTPError (4xx/5xx), the request itself raising ConnectionError, or
\* response.json() raising JSONDecodeError on a 2xx body that is no JSON
Exceptions == {"HTTPError", "ConnectionError", "JSONDecodeError"}

----------------------------------------------------------------------------
(* The decisions the code takes *)

\* variant: `if api_key is None`
MissingKeyNoneOnly(api_key) == api_key = None

\* get_api_key: `if not api_key`
MissingKey(api_key) == ~Truthy(api_key)

\* run_research: `except requests.exceptions.HTTPError` around create_interaction
CreateCaught(exc) == exc = "HTTPError"

\* run_research: `except requests.exceptions.HTTPError` around get_interaction
PollCaught(exc) == exc = "HTTPError"

\* variant: interaction.get("id") or interaction.get("name", "").split("/")[-1]
InteractionIdPreferFlat(created) ==
    Or(Get(created, "id", None),
       Str(Last(Split(Get(created, "name", Str(<<>>)).s, "/"))))

\* interaction.get("name", "").split("/")[-1] or interaction.get("id")
InteractionId(created) ==
    Or(Str(Last(Split(Get(created, "name", Str(<<>>)).s, "/"))),
       Get(created, "id", None))

\* variant: only the upper-case spelling is compared
IsCompletedUpperOnly(status) == status = S_COMPLETED

\* status == "COMPLETED" or status == "completed"
IsCompleted(status) == status = S_COMPLETED \/ status = S_completed

\* status == "FAILED" or status == "failed"
IsFailed(status) == status = S_FAILED \/ status = S_failed

\* variant: outputs[0] in place of outputs[-1]
CompletedResultFirst(fetched) ==
    LET outputs == Get(fetched, "outputs", List(<<>>))
    IN  IF Truthy(outputs)
        THEN Get(Head(outputs.items), "text", Repr("output"))
        ELSE Repr("interaction")

\* the value returned from the COMPLETED branch
CompletedResult(fetched) ==
    LET outputs == Get(fetched, "outputs", List(<<>>))
    IN  IF Truthy(outputs)
        THEN Get(Last(outputs.items), "text", Repr("output"))
        ELSE Repr("interaction")

\* variant: the remote detail is dropped
FailedErrorPlaceholder(fetched) == S_UnknownError

\* interaction.get("error", "Unknown error")
FailedError(fetched) == Get(fetched, "error", S_UnknownError)

\* main: `if result: ... else: sys.exit(1)`; falling off main exits with 0
ExitCodeOf(returned) == IF Truthy(returned) THEN 0 ELSE 1

\* status of a process ended by an exception nobody caught
TracebackExit == 1

\* variant: the create handler retries instead of returning
AfterCreateErrorRetry == "create"

\* where run_research goes after `return None` in the create handler
AfterCreateError == "returned"

\* where run_research goes after time.sleep: the top of `while True`
AfterSleep == "poll"

\* variant: a terminal status in the create response ends the run at once
AfterCreateShortcut(created) ==
    IF Get(created, "status", S_unknown) \in {S_COMPLETED, S_completed, S_FAILED, S_failed}
    THEN "returned" ELSE "poll"

\* where run_research goes once the task id is known: into the poll loop
AfterCreate(created) == "poll"

\* variant: the id is read again from the last response
FetchIdFromLast == Get(interaction, "id", None)

\* the id passed to get_interaction
FetchId == interaction_id

\* variant: the FAILED branch returns the error detail
FailedReturnDetail(fetched) == Get(fetched, "error", S_UnknownError)

\* the value returned from the FAILED branch
FailedReturn(fetched) == None

\* variant: a delay that grows with the number of polls made
SleepSecondsBackoff == POLL_INTERVAL * Len(statuses)

\* the argument of time.sleep
SleepSeconds == POLL_INTERVAL

----------------------------------------------------------------------------
(* Output and call log *)

Num(n) == [tag |-> "int", n |-> n]
Line(kind, elapsed, detail) == [kind |-> kind, elapsed |-> elapsed, detail |-> detail]
Call(op, arg) == [op |-> op, arg |-> arg]

\* int(time.time() - start_time)
Elapsed == now - start_time

----------------------------------------------------------------------------
(* The process *)

Init ==
    /\ env_key \in EnvKeys
    /\ pc = "main"
    /\ interaction_id = None
    /\ interaction = None
    /\ result = None
    /\ exitCode = <<>>
    /\ raised = "none"
    /\ uncaught = "none"
    /\ stdout = <<>>
    /\ calls = <<>>
    /\ statuses = <<>>
    /\ now = 0
    /\ start_time = 0
    /\ submit_response = None
    /\ threads = <<>>
    /\ frames = <<>>

\* an exception leaves run_research and main: traceback, exit status 1
Crash(exc) ==
    /\ uncaught' = exc
    /\ exitCode' = <<TracebackExit>>
    /\ pc' = "exit"

\* main up to and including get_api_key()
Main_GetApiKey ==
    /\ pc = "main"
    /\ IF MissingKey(env_key)
       THEN /\ stdout' = Append(stdout, Line("config_error", None, None))
            /\ exitCode' = <<1>>
            /\ pc' = "exit"
       ELSE /\ pc' = "create"
            /\ UNCHANGED <<stdout, exitCode>>
    /\ UNCHANGED <<env_key, interaction_id, interaction, result, raised, uncaught,
                   calls, statuses, now, start_time, submit_response>>
    /\ UNCHANGED nvars

\* run_research from its first line to the top of the poll loop
RunResearch_Create ==
    /\ pc = "create"
    /\ calls' = Append(calls, Call("submit", None))
    /\ \/ \E created \in CreateResponses :
             /\ interaction' = created
             /\ submit_response' = created
             /\ interaction_id' = InteractionId(created)
             /\ stdout' = stdout \o <<Line("starting", None, None),
                                      Line("started", None, InteractionId(created))>>
             /\ start_time' = now
             /\ pc' = AfterCreate(created)
             /\ UNCHANGED <<result, exitCode, raised, uncaught>>
       \/ \E exc \in Exceptions :
             /\ raised' = exc
             /\ IF CreateCaught(exc)
                THEN /\ stdout' = stdout \o <<Line("starting", None, None),
                                              Line("error_creating", None, None)>>
                     /\ result' = None
                     /\ pc' = AfterCreateError
                     /\ UNCHANGED <<exitCode, uncaught>>
                ELSE /\ stdout' = Append(stdout, Line("starting", None, None))
                     /\ Crash(exc)
                     /\ UNCHANGED result
             /\ UNCHANGED <<interaction, interaction_id, start_time, submit_response>>
    /\ UNCHANGED <<env_key, statuses, now>>
    /\ UNCHANGED nvars

\* one pass of the poll loop, from get_interaction to the return or the sleep
RunResearch_Poll ==
    /\ pc = "poll"
    /\ Len(statuses) < MaxPolls
    /\ calls' = Append(calls, Call("fetch", FetchId))
    /\ \/ \E fetched \in GetResponses :
             LET status == Get(fetched, "status", S_unknown) IN
             /\ interaction' = fetched
             /\ statuses' = Append(statuses, status)
             /\ IF IsCompleted(status)
                THEN /\ stdout' = Append(stdout, Line("completed", Num(Elapsed), None))
                     /\ result' = CompletedResult(fetched)
                     /\ pc' = "returned"
                ELSE IF IsFailed(status)
                THEN /\ stdout' = Append(stdout,
                            Line("failed", Num(Elapsed), FailedError(fetched)))
                     /\ result' = FailedReturn(fetched)
                     /\ pc' = "returned"
                ELSE /\ stdout' = Append(stdout, Line("status", Num(Elapsed), status))
                     /\ pc' = "sleep"
                     /\ UNCHANGED result
             /\ UNCHANGED <<exitCode, raised, uncaught>>
       \/ \E exc \in Exceptions :
             /\ raised' = exc
             /\ IF PollCaught(exc)
                THEN /\ stdout' = Append(stdout, Line("error_polling", None, None))
                     /\ result' = None
                     /\ pc' = "returned"
                     /\ UNCHANGED <<exitCode, uncaught>>
                ELSE /\ Crash(exc)
                     /\ UNCHANGED <<stdout, result>>
             /\ UNCHANGED <<interaction, statuses>>
    /\ UNCHANGED <<env_key, interaction_id, now, start_time, submit_response>>
    /\ UNCHANGED nvars

\* time.sleep(POLL_INTERVAL) at the end of a pass
RunResearch_Sleep ==
    /\ pc = "sleep"
    /\ calls' = Append(calls, Call("sleep", Num(SleepSeconds)))
    /\ now' = now + SleepSeconds
    /\ pc' = AfterSleep
    /\ UNCHANGED <<env_key, interaction_id, interaction, result, exitCode,
                   raised, uncaught, stdout, statuses, start_time, submit_response>>
    /\ UNCHANGED nvars

\* main after run_research has returned
Main_Finish ==
    /\ pc = "returned"
    /\ IF Truthy(result)
       THEN stdout' = Append(stdout, Line("results", None, result))
       ELSE UNCHANGED stdout
    /\ exitCode' = <<ExitCodeOf(result)>>
    /\ pc' = "exit"
    /\ UNCHANGED <<env_key, interaction_id, interaction, result, raised, uncaught,
                   calls, statuses, now, start_time, submit_response>>
    /\ UNCHANGED nvars

Next ==
    \/ Main_GetApiKey
    \/ RunResearch_Create
    \/ RunResearch_Poll
    \/ RunResearch_Sleep
    \/ Main_Finish

Spec == Init /\ [][Next]_vars

----------------------------------------------------------------------------
(* run_research called from several threads of one process.  Each call has  *)
(* its own frame of local variables; the module-level names are only read.  *)
(* A step is one statement that touches a local, so that two calls can      *)
(* interleave between an assignment and the statement that reads it.        *)

\* greatest number of fetch responses one call receives
MaxFeed == 2

RunIds == {1, 2}

Outcome(exc, body) == [exc |-> exc, body |-> body]
Body(name, id, status, outputs, error) ==
    [name |-> name, id |-> id, status |-> status, outputs |-> outputs, error |-> error]

\* what one create exchange can give a call
NSubmitOutcomes ==
    {Outcome("none", Body(Str(<<"i","/","a">>), Absent, S_in_progress, Absent, Absent)),
     Outcome("none", Body(Absent, Str(<<"c">>), S_in_progress, Absent, Absent)),
     Outcome("HTTPError", None),
     Outcome("ConnectionError", None)}

\* what one get exchange can give a call
NFetchOutcomes ==
    {Outcome("none", Body(Absent, Absent, S_in_progress, Absent, Absent)),
     Outcome("none", Body(Absent, Absent, S_COMPLETED,
                          List(<<[text |-> Str(<<"X">>)]>>), Absent)),
     Outcome("none", Body(Absent, Absent, S_failed, Absent, Str(<<"e">>))),
     Outcome("HTTPError", None),
     Outcome("ConnectionError", None)}

NoOutcome == Outcome("pending", None)

\* variant: the locals are module-level names, one cell for all calls
SlotShared(r) == 1

\* the frame that holds the locals of call r: its own
Slot(r) == r

Frame(r) == frames[Slot(r)]

SetLocal(r, name, value) == frames' = [frames EXCEPT ![Slot(r)][name] = value]

InitN ==
    /\ env_key = Str(<<"k">>)
    /\ pc = "main"
    /\ interaction_id = None
    /\ interaction = None
    /\ result = None
    /\ exitCode = <<>>
    /\ raised = "none"
    /\ uncaught = "none"
    /\ stdout = <<>>
    /\ calls = <<>>
    /\ statuses = <<>>
    /\ now = 0
    /\ start_time = 0
    /\ submit_response = None
    /\ threads = [r \in RunIds |->
                    [pc |-> "call", submitted |-> NoOutcome, received |-> <<>>,
                     submits |-> 0, fetches |-> 0, sleeps |-> 0, result |-> None]]
    /\ frames = [r \in RunIds |->
                    [api_key |-> None, interaction |-> None, interaction_id |-> None]]

\* run_research(api_key, query) is entered: the argument is bound
N_Call(r) ==
    /\ threads[r].pc = "call"
    /\ SetLocal(r, "api_key", env_key)
    /\ threads' = [threads EXCEPT ![r].pc = "create"]
    /\ UNCHANGED svars

\* interaction = create_interaction(api_key, query), with its handler
N_Create(r) ==
    /\ threads[r].pc = "create"
    /\ \E o \in NSubmitOutcomes :
          /\ IF o.exc = "none"
             THEN /\ SetLocal(r, "interaction", o.body)
                  /\ threads' = [threads EXCEPT ![r].pc = "take_id",
                                                ![r].submitted = o,
                                                ![r].submits = @ + 1]
             ELSE /\ UNCHANGED frames
                  /\ threads' = [threads EXCEPT
                        ![r].pc = IF CreateCaught(o.exc) THEN AfterCreateError ELSE "died",
                        ![r].submitted = o,
                        ![r].submits = @ + 1,
                        ![r].result = None]
    /\ UNCHANGED svars

\* interaction_id = ...
N_TakeId(r) ==
    /\ threads[r].pc = "take_id"
    /\ SetLocal(r, "interaction_id", InteractionId(Frame(r).interaction))
    /\ threads' = [threads EXCEPT ![r].pc = AfterCreate(Frame(r).interaction)]
    /\ UNCHANGED svars

\* interaction = get_interaction(api_key, interaction_id), with its handler
N_Fetch(r) ==
    /\ threads[r].pc = "poll"
    /\ Len(threads[r].received) < MaxFeed
    /\ \E o \in NFetchOutcomes :
          /\ IF o.exc = "none"
             THEN /\ SetLocal(r, "interaction", o.body)
                  /\ threads' = [threads EXCEPT ![r].pc = "inspect",
                                                ![r].received = Append(@, o),
                                                ![r].fetches = @ + 1]
             ELSE /\ UNCHANGED frames
                  /\ threads' = [threads EXCEPT
                        ![r].pc = IF PollCaught(o.exc) THEN "returned" ELSE "died",
                        ![r].received = Append(@, o),
                        ![r].fetches = @ + 1,
                        ![r].result = None]
    /\ UNCHANGED svars

\* status = interaction.get("status", "unknown") and the branch on it
N_Inspect(r) ==
    /\ threads[r].pc = "inspect"
    /\ LET status == Get(Frame(r).interaction, "status", S_unknown) IN
       threads' = [threads EXCEPT
            ![r].pc = IF IsCompleted(status) \/ IsFailed(status) THEN "returned" ELSE "sleep",
            ![r].result = IF IsCompleted(status) THEN CompletedResult(Frame(r).interaction)
                          ELSE IF IsFailed(status) THEN FailedReturn(Frame(r).interaction)
                          ELSE @]
    /\ UNCHANGED frames
    /\ UNCHANGED svars

\* time.sleep(POLL_INTERVAL)
N_Sleep(r) ==
    /\ threads[r].pc = "sleep"
    /\ threads' = [threads EXCEPT ![r].pc = AfterSleep, ![r].sleeps = @ + 1]
    /\ UNCHANGED frames
    /\ UNCHANGED svars

NextN ==
    \/ \E r \in RunIds : N_Call(r)
    \/ \E r \in RunIds : N_Create(r)
    \/ \E r \in RunIds : N_TakeId(r)
    \/ \E r \in RunIds : N_Fetch(r)
    \/ \E r \in RunIds : N_Inspect(r)
    \/ \E r \in RunIds : N_Sleep(r)

SpecN == InitN /\ [][NextN]_vars

\* run_research executed by itself on the create outcome and the fetch
\* outcomes given: how it ends, what it returns, how many calls it makes
RECURSIVE AlonePoll(_, _, _)
AlonePoll(got, fetched, slept) ==
    IF got = <<>>
    THEN [pc |-> "running", result |-> None,
          submits |-> 1, fetches |-> fetched, sleeps |-> slept]
    ELSE LET o == Head(got)
             status == Get(o.body, "status", S_unknown)
         IN  IF o.exc # "none"
             THEN [pc |-> IF PollCaught(o.exc) THEN "returned" ELSE "died",
                   result |-> None,
                   submits |-> 1, fetches |-> fetched + 1, sleeps |-> slept]
             ELSE IF IsCompleted(status)
             THEN [pc |-> "returned", result |-> CompletedResult(o.body),
                   submits |-> 1, fetches |-> fetched + 1, sleeps |-> slept]
             ELSE IF IsFailed(status)
             THEN [pc |-> "returned", result |-> FailedReturn(o.body),
                   submits |-> 1, fetches |-> fetched + 1, sleeps |-> slept]
             ELSE AlonePoll(Tail(got), fetched + 1, slept + 1)

Alone(submitted, got) ==
    IF submitted.exc # "none"
    THEN [pc |-> IF CreateCaught(submitted.exc) THEN "returned" ELSE "died",
          result |-> None, submits |-> 1, fetches |-> 0, sleeps |-> 0]
    ELSE AlonePoll(got, 0, 0)

----------------------------------------------------------------------------
(* Vocabulary of the properties *)

\* run_research executed one of its return statements
RunReturned == pc \in {"returned", "exit"} /\ uncaught = "none" /\ calls # <<>>

\* a line of the given kind was printed
Printed(kind) == \E i \in DOMAIN stdout : stdout[i].kind = kind

\* run returned the absence value after reporting the given cause
ErrorWith(kind) == RunReturned /\ result = None /\ Printed(kind)

CountOf(op) == Cardinality({i \in DOMAIN calls : calls[i].op = op})
SubmitCount == CountOf("submit")
FetchCount == CountOf("fetch")
SleepCount == CountOf("sleep")

\* the fetch and sleep calls of the run, in order
Polls == SelectSeq(calls, LAMBDA c : c.op # "submit")

CompletedLabels == {S_COMPLETED, S_completed}
FailedLabels == {S_FAILED, S_failed}
TerminalLabels == CompletedLabels \cup FailedLabels

\* the last fetch response carried the status Completed / Failed
LastCompleted == statuses # <<>> /\ Last(statuses) \in CompletedLabels
LastFailed == statuses # <<>> /\ Last(statuses) \in FailedLabels

\* "outputs" of the last fetch response is a non-empty sequence
HasOutputs ==
    /\ interaction.outputs # Absent
    /\ interaction.outputs.items # <<>>

\* the submit call succeeded: its response was stored
Submitted == interaction # None

----------------------------------------------------------------------------
(* Properties *)

\* C1: a Completed response (either case) with non-empty outputs makes run
\* return the text of the last element of outputs, whichever field of the
\* submit response the task id came from.
C1_CompletedReturnsLastText ==
    (LastCompleted /\ HasOutputs
        /\ Last(interaction.outputs.items).text # Absent)
    => /\ RunReturned
       /\ result = Last(interaction.outputs.items).text

\* C1 witness: id taken from the hierarchical name, lower-case status, two
\* outputs, the text of the second one returned and printed.
C1_Witness ==
    /\ pc = "exit"
    /\ interaction_id = Str(<<"a">>)
    /\ LastCompleted /\ Last(statuses) = S_completed
    /\ HasOutputs /\ Len(interaction.outputs.items) = 2
    /\ result = Str(<<"Y">>)

\* C2: a Completed response with an empty outputs sequence makes run return
\* an Error result (the absence value), never a text.
C2_EmptyOutputIsError ==
    (LastCompleted /\ interaction.outputs = List(<<>>))
    => RunReturned /\ result = None

\* C3: a Failed response (either case) makes run return an Error result
\* whose reported cause is the remote failure and carries the error detail
\* of the response, or the placeholder when the response has no error field.
C3_FailedCarriesDetail ==
    LastFailed
    => /\ ErrorWith("failed")
       /\ Last(stdout).kind = "failed"
       /\ Last(stdout).detail =
             IF interaction.error = Absent THEN S_UnknownError
             ELSE interaction.error

\* C3 witness: an upper-case FAILED response with an error detail, reported.
C3_Witness ==
    /\ pc = "exit"
    /\ LastFailed /\ Last(statuses) = S_FAILED
    /\ interaction.error = Str(<<"e">>)
    /\ Last(stdout).detail = Str(<<"e">>)
    /\ result = None

\* C4: whenever the submit call fails, run returns an Error result with
\* cause SubmissionFailed and makes no fetch call and no sleep.
C4_SubmitFailureIsSubmissionFailed ==
    (raised # "none" /\ ~Submitted)
    => /\ ErrorWith("error_creating")
       /\ FetchCount = 0
       /\ SleepCount = 0

\* C5: whenever a fetch call fails, run returns an Error result with cause
\* PollingFailed and the failed fetch is the last call of the run.
C5_FetchFailureIsPollingFailed ==
    (raised # "none" /\ Submitted)
    => /\ ErrorWith("error_polling")
       /\ Last(calls).op = "fetch"
       /\ FetchCount = Len(statuses) + 1

\* C6: the calls of the poll loop are fetch, (sleep, fetch)*: every sleep
\* lasts 10, and a run whose responses are n non-terminal statuses followed
\* by a terminal one has returned after exactly n+1 fetches and n sleeps.
C6_FetchSleepAlternate ==
    /\ \A i \in DOMAIN Polls :
          IF i % 2 = 1 THEN Polls[i].op = "fetch"
          ELSE Polls[i].op = "sleep" /\ Polls[i].arg = Num(10)
    /\ (statuses # <<>> /\ Last(statuses) \in TerminalLabels
            /\ \A i \in 1..(Len(statuses) - 1) : statuses[i] \notin TerminalLabels)
       => /\ RunReturned
          /\ FetchCount = Len(statuses)
          /\ SleepCount = Len(statuses) - 1
          /\ Last(calls).op = "fetch"

\* C6 witness: [InProgress, InProgress, Completed(text = X)] gives three
\* fetches, two sleeps and the text X.
C6_Witness ==
    /\ RunReturned
    /\ Len(statuses) = 3
    /\ statuses[1] \notin TerminalLabels /\ statuses[2] \notin TerminalLabels
    /\ statuses[3] = S_COMPLETED
    /\ FetchCount = 3 /\ SleepCount = 2
    /\ now - start_time = 20
    /\ result = Str(<<"X">>)

\* C7: with the credential missing, the process ends at once with the
\* configuration error and exit code 1, and no transport call is made.
C7_MissingCredentialExits ==
    ((env_key = None \/ env_key = Str(<<>>)) /\ pc # "main")
    => /\ pc = "exit"
       /\ exitCode = <<1>>
       /\ stdout = <<Line("config_error", None, None)>>
       /\ calls = <<>>

\* C7 witness: the process has exited on an unset credential.
C7_Witness == env_key = None /\ pc = "exit" /\ exitCode = <<1>> /\ calls = <<>>

\* C8: once run has returned, the exit code is 0 exactly when the outcome is
\* Success (a Completed response with non-empty outputs) and 1 exactly when
\* it is an Error.
C8_ExitCodeMatchesOutcome ==
    (pc = "exit" /\ RunReturned)
    => /\ exitCode \in {<<0>>, <<1>>}
       /\ exitCode = <<0>> <=> (LastCompleted /\ HasOutputs)

\* C9: a run calls submit exactly once.
C9_SubmitExactlyOnce ==
    /\ SubmitCount <= 1
    /\ (pc \in {"poll", "sleep", "returned"} \/ (pc = "exit" /\ ~Printed("config_error")))
       => SubmitCount = 1

\* C9 witness: a run that polled three times and exited made one submit call.
C9_Witness ==
    /\ pc = "exit"
    /\ SubmitCount = 1
    /\ FetchCount = 3

\* C10: a response body that cannot be parsed is turned into an Error result,
\* SubmissionFailed for submit and PollingFailed for fetch.
C10_ParseFailureIsError ==
    raised = "JSONDecodeError"
    => IF Submitted THEN ErrorWith("error_polling")
       ELSE ErrorWith("error_creating")

\* C11: Completed and Failed are absorbing (a fetch that returned one of them
\* is the last call of the run, and the run has returned on it), and every
\* run that has terminated produced its Result.
C11_TerminalAbsorbingOneResult ==
    /\ \A i \in DOMAIN statuses :
          statuses[i] \in TerminalLabels
          => /\ i = Len(statuses)
             /\ Last(calls).op = "fetch"
             /\ FetchCount = Len(statuses)
             /\ RunReturned
    /\ (pc = "exit" /\ calls # <<>>) => RunReturned

\* C12: a fetch response whose status is none of COMPLETED, completed,
\* FAILED, failed (any other label, or no status field) never ends the run:
\* the status is reported, the run sleeps 10 and fetches again, and only a
\* failure of a later fetch can end it.  A response with one of the four
\* spellings ends the run.
C12_OtherStatusesKeepPolling ==
    /\ (statuses # <<>> /\ Last(statuses) \notin TerminalLabels)
       => /\ result = None
          /\ Printed("status")
          /\ \/ /\ pc = "sleep"
                /\ Last(stdout) = Line("status", Num(now - start_time), Last(statuses))
                /\ Last(calls).op = "fetch"
             \/ /\ pc = "poll"
                /\ Last(calls) = Call("sleep", Num(10))
             \/ /\ pc \in {"returned", "exit"}
                /\ raised # "none"
                /\ Last(calls).op = "fetch"
                /\ FetchCount = Len(statuses) + 1
    /\ (statuses # <<>> /\ Last(statuses) \in TerminalLabels)
       => pc \in {"returned", "exit"}
    /\ (statuses # <<>> /\ interaction.status = Absent)
       => Last(statuses) \notin TerminalLabels

\* C12 witness: a response without status, then a label with no branch of its
\* own, then a lower-case failed: two sleeps, then the run returned.
C12_Witness ==
    /\ Len(statuses) = 3
    /\ statuses[1] = S_unknown
    /\ statuses[2] = S_Completed
    /\ statuses[3] = S_failed
    /\ SleepCount = 2
    /\ pc = "returned"

\* C13: the poll loop has no bound of its own.  While every fetch succeeds
\* with a non-terminal status the run has not terminated and is still
\* polling, however many polls were made; once a fetch reports Completed or
\* Failed, or a fetch fails, the run has terminated with a Result.
C13_TerminatesOnlyOnTerminalOrFailure ==
    /\ (Submitted /\ raised = "none"
            /\ \A i \in DOMAIN statuses : statuses[i] \notin TerminalLabels)
       => pc \in {"poll", "sleep"}
    /\ (Submitted /\ (raised # "none"
                        \/ (statuses # <<>> /\ Last(statuses) \in TerminalLabels)))
       => RunReturned

\* the part of chars after its last "/", all of chars when it has none
AfterLastSlash(chars) ==
    LET k == CHOOSE k \in 0..Len(chars) :
                /\ k = 0 \/ chars[k] = "/"
                /\ \A j \in (k + 1)..Len(chars) : chars[j] # "/"
    IN  SubSeq(chars, k + 1, Len(chars))

\* the ids a submit response can give: the last path segment of its name,
\* its id field, or nothing
IdsOf(created) ==
    {None}
    \cup (IF created.name = Absent THEN {} ELSE {Str(AfterLastSlash(created.name.s))})
    \cup (IF created.id = Absent THEN {} ELSE {created.id})

\* C14: every fetch of a run carries the same task id, the one taken from
\* the submit response; it does not follow the id a fetch response reports,
\* and the only calls after the submit are fetches and sleeps.
C14_FetchesUseSubmitId ==
    Submitted
    => /\ interaction_id \in IdsOf(submit_response)
       /\ \A i \in DOMAIN calls :
             /\ calls[i].op \in {"submit", "fetch", "sleep"}
             /\ calls[i].op = "submit" <=> i = 1
             /\ calls[i].op = "fetch" => calls[i].arg = interaction_id

\* C14 witness: three fetches with the id taken from the name of the submit
\* response, although the fetch responses report another id.
C14_Witness ==
    /\ FetchCount = 3
    /\ Len(statuses) = 3
    /\ submit_response.name = Str(<<"i","/","a">>)
    /\ interaction.id = Str(<<"z">>)
    /\ \A i \in DOMAIN calls : calls[i].op = "fetch" => calls[i].arg = Str(<<"a">>)

\* C16: after a successful submit the run does not return before it has made
\* a fetch, whatever status the submit response carries: until the first
\* fetch it is at the top of the poll loop with no result and no status read.
C16_FetchBeforeReturn ==
    /\ (Submitted /\ pc \in {"returned", "exit"}) => FetchCount >= 1
    /\ (Submitted /\ FetchCount = 0)
       => /\ pc = "poll"
          /\ statuses = <<>>
          /\ result = None
          /\ ~Printed("completed") /\ ~Printed("failed")

\* C16 witness: the submit response reported COMPLETED, the run fetched all
\* the same, and it returned on the failed status of the fetch response.
C16_Witness ==
    /\ Submitted
    /\ submit_response.status = S_COMPLETED
    /\ pc = "returned"
    /\ FetchCount = 1
    /\ statuses = <<S_failed>>
    /\ result = None

\* C17: the task id is the last path segment of name whenever that segment
\* is not empty, also when an id field is present; the id field is used only
\* when name is missing or ends in "/"; with neither, the id is None, no
\* SubmissionFailed is reported and the run fetches with that None.
C17_NameBeforeId ==
    Submitted
    => LET name == submit_response.name
           segment == IF name = Absent THEN <<>> ELSE AfterLastSlash(name.s)
       IN  /\ segment # <<>> => interaction_id = Str(segment)
           /\ (segment = <<>> /\ submit_response.id # Absent)
              => interaction_id = submit_response.id
           /\ (segment = <<>> /\ submit_response.id = Absent)
              => /\ interaction_id = None
                 /\ ~Printed("error_creating")
                 /\ pc \in {"returned", "exit"} => FetchCount >= 1
                 /\ \A i \in DOMAIN calls :
                       calls[i].op = "fetch" => calls[i].arg = None

\* C17 witness: name and id both present, the fetch made with the last
\* segment of name.
C17_Witness ==
    /\ Submitted
    /\ submit_response.name = Str(<<"i","/","a">>)
    /\ submit_response.id = Str(<<"c">>)
    /\ FetchCount >= 1
    /\ calls[2] = Call("fetch", Str(<<"a">>))

\* a run whose submit response has neither name nor id fetched with None
C17_WitnessNoId ==
    /\ Submitted
    /\ submit_response.name = Absent /\ submit_response.id = Absent
    /\ FetchCount = 2
    /\ calls[2] = Call("fetch", None)
    /\ pc = "returned"

ErrorKinds == {"error_creating", "error_polling", "failed"}

\* the outcome lines printed by run_research so far
OutcomeLines == SelectSeq(stdout, LAMBDA l : l.kind \in ErrorKinds \cup {"completed"})

\* C18: a run that returned printed exactly one outcome line; after any of
\* the three error lines the returned value is None, after the completed
\* line it is a text; main treats every None alike (exit code 1, nothing
\* more printed), so only the printed line tells the causes apart.
C18_ErrorsReturnNone ==
    RunReturned
    => /\ Len(OutcomeLines) = 1
       /\ OutcomeLines[1].kind \in ErrorKinds => result = None
       /\ OutcomeLines[1].kind = "completed" => result.tag = "str"
       /\ (pc = "exit" /\ result = None)
          => /\ exitCode = <<1>>
             /\ Last(stdout) = OutcomeLines[1]

\* C18 witness: a remote failure with an error detail, returned as None.
C18_Witness ==
    /\ pc = "exit"
    /\ RunReturned
    /\ OutcomeLines = <<Line("failed", Num(10), Str(<<"e">>))>>
    /\ result = None
    /\ exitCode = <<1>>

\* what a call that has ended shows to its caller and to the remote side
Observed(r) ==
    [pc |-> threads[r].pc, result |-> threads[r].result,
     submits |-> threads[r].submits, fetches |-> threads[r].fetches,
     sleeps |-> threads[r].sleeps]

\* C15: with calls of run_research interleaved in any order, every call that
\* has ended returned the value and made the numbers of submit, fetch and
\* sleep calls that it does alone on the responses it received, and the
\* credential each call holds is the one of the process, unchanged.
C15_RunsIndependent ==
    /\ \A r \in RunIds :
          threads[r].pc \in {"returned", "died"}
          => Observed(r) = Alone(threads[r].submitted, threads[r].received)
    /\ env_key = Str(<<"k">>)
    /\ \A r \in RunIds :
          threads[r].pc # "call" => Frame(r).api_key = env_key

\* C15 witness: call 1 received in-progress and then a failure and call 2
\* received COMPLETED, both ended, call 2 after call 1's first fetch.
C15_Witness ==
    /\ threads[1].pc = "returned" /\ threads[2].pc = "returned"
    /\ threads[1].fetches = 2 /\ threads[1].sleeps = 1 /\ threads[1].result = None
    /\ threads[2].fetches = 1 /\ threads[2].result = Str(<<"X">>)
    /\ frames[1].interaction.status = S_failed
    /\ frames[2].interaction.status = S_COMPLETED

====
